---- MODULE Spec2Model ----
(***************************************************************************)
(* A state-machine model of screenshot-studio: the App component's state   *)
(* (settings, image, isAnalyzing), the Sidebar's handlers and controls,    *)
(* the palette service wrapper, the Canvas geometry and the export / copy  *)
(* pipeline.                                                               *)
(*                                                                         *)
(* React semantics used throughout: a handler runs with the props of the   *)
(* render in which it was created.  A synchronous handler therefore reads  *)
(* the current state; the continuation of an asynchronous handler (after   *)
(* an await, or in a FileReader onload callback) still reads the state of  *)
(* the render in which the handler was started.  That captured state is    *)
(* stored with every operation in flight.                                  *)
(*                                                                         *)
(* Numbers that are fractions in the source are kept as integers:          *)
(* settings.scale and shadow.opacity in hundredths.                        *)
(***************************************************************************)
EXTENDS Integers, Sequences, FiniteSets, TLC

VARIABLES
    settings,      \* App: useState<EditorSettings>
    image,         \* App: useState<string | null>, Null or a data URI
    isAnalyzing,   \* App: useState(false)
    apiKey,        \* geminiService: process.env.API_KEY || ''
    paletteReqs,   \* handleSmartPalette calls awaiting generateSmartPalette
    paletteCall,   \* history: the last generateSmartPalette call and how it settled
    bgReads,       \* Sidebar.processFile: FileReader reads in flight
    imgReads,      \* App.processFile: FileReader reads in flight
    exportLabel,   \* the innerText of the export button
    exportOps,     \* handleDownload calls in flight
    copied,        \* Sidebar: useState(false)
    isCopying,     \* Sidebar: useState(false)
    copyOps,       \* copy-button handlers in flight
    copiedTimers,  \* pending setTimeout(() => setCopied(false), 2000)
    downloads,     \* the downloads triggered so far
    objectURLs,    \* object URLs: how many were created, how many revoked
    clipboard,     \* the items written to the clipboard so far
    alerts,        \* number of alert() dialogs shown so far
    lastRaster,    \* history: the last call of the rasterizer
    container,     \* Canvas: clientWidth, clientHeight of the preview container
    previewScale,  \* Canvas: useState(1), a fraction
    events,        \* number of user input events so far
    last,          \* history: the last operation, the settings before it, its update
    layout,        \* Canvas: the image constraints computed by the last render
    toggleBase,    \* history: the background before the current run of type switches
    lastWallpaper, \* history: the wallpaper selected last
    snap           \* history: image, reads and effects before the last operation

settingsVars == <<settings, image, isAnalyzing, apiKey, paletteReqs, paletteCall,
                  bgReads, imgReads>>
exportVars == <<exportLabel, exportOps, copied, isCopying, copyOps, copiedTimers,
                downloads, objectURLs, clipboard, alerts, lastRaster>>
canvasVars == <<container, previewScale>>
historyVars == <<last, toggleBase, lastWallpaper, snap>>
vars == <<settingsVars, exportVars, canvasVars, layout, events, historyVars>>

-----------------------------------------------------------------------------
(* Bounds of the model *)

\* user input events (clicks, slider moves, file selections) in one behaviour
MaxEvents == 4
\* how many of the twelve wallpaper thumbnails the model clicks
WallpaperChoices == 2
\* longest colour list the palette service answers with
MaxColors == 3
\* items on the clipboard at one paste event
MaxItems == 2
\* largest padding the Canvas constraints are computed for
MaxPadding == 1100

-----------------------------------------------------------------------------
(* Values *)

Null == "null"

RemoveAt(s, i) == SubSeq(s, 1, i - 1) \o SubSeq(s, i + 1, Len(s))

\* wallpapers, Sidebar.tsx:16-29
wallpapers ==
    << "/wallpapers/thumbnails/gradient-wallpaper-0001.jpg",
       "/wallpapers/thumbnails/gradient-wallpaper-0002.jpg",
       "/wallpapers/thumbnails/gradient-wallpaper-0003.jpg",
       "/wallpapers/thumbnails/gradient-wallpaper-0004.jpg",
       "/wallpapers/thumbnails/gradient-wallpaper-0005.jpg",
       "/wallpapers/thumbnails/gradient-wallpaper-0006.jpg",
       "/wallpapers/thumbnails/gradient-wallpaper-0007.jpg",
       "/wallpapers/thumbnails/gradient-wallpaper-0008.jpg",
       "/wallpapers/thumbnails/gradient-wallpaper-0009.jpg",
       "/wallpapers/thumbnails/gradient-wallpaper-0010.jpg",
       "/wallpapers/thumbnails/gradient-wallpaper-0011.jpg",
       "/wallpapers/thumbnails/gradient-wallpaper-0012.jpg" >>

\* wallpaper.replace('thumbnails', 'hires'), Sidebar.tsx:109
hiResWallpaper(wallpaper) ==
    CASE wallpaper = wallpapers[1]  -> "/wallpapers/hires/gradient-wallpaper-0001.jpg"
      [] wallpaper = wallpapers[2]  -> "/wallpapers/hires/gradient-wallpaper-0002.jpg"
      [] wallpaper = wallpapers[3]  -> "/wallpapers/hires/gradient-wallpaper-0003.jpg"
      [] wallpaper = wallpapers[4]  -> "/wallpapers/hires/gradient-wallpaper-0004.jpg"
      [] wallpaper = wallpapers[5]  -> "/wallpapers/hires/gradient-wallpaper-0005.jpg"
      [] wallpaper = wallpapers[6]  -> "/wallpapers/hires/gradient-wallpaper-0006.jpg"
      [] wallpaper = wallpapers[7]  -> "/wallpapers/hires/gradient-wallpaper-0007.jpg"
      [] wallpaper = wallpapers[8]  -> "/wallpapers/hires/gradient-wallpaper-0008.jpg"
      [] wallpaper = wallpapers[9]  -> "/wallpapers/hires/gradient-wallpaper-0009.jpg"
      [] wallpaper = wallpapers[10] -> "/wallpapers/hires/gradient-wallpaper-0010.jpg"
      [] wallpaper = wallpapers[11] -> "/wallpapers/hires/gradient-wallpaper-0011.jpg"
      [] wallpaper = wallpapers[12] -> "/wallpapers/hires/gradient-wallpaper-0012.jpg"
      [] OTHER -> wallpaper

\* the swatches of the solid colour grid, Sidebar.tsx:31-36 (the first, the second
\* and the fifth), which the colour and text inputs can produce as well
solidColors == {"#000000", "#1a1a1a", "#ef4444"}

\* colours the gradient start / end pickers are set to
pickerColors == {"#ef4444"}

\* directions, Sidebar.tsx:38-48: label, value
directions ==
    << [label |-> "TL", value |-> "to bottom right"],
       [label |-> "T",  value |-> "to bottom"],
       [label |-> "TR", value |-> "to bottom left"],
       [label |-> "L",  value |-> "to right"],
       [label |-> "C",  value |-> "to right"],
       [label |-> "R",  value |-> "to left"],
       [label |-> "BL", value |-> "to top right"],
       [label |-> "B",  value |-> "to top"],
       [label |-> "BR", value |-> "to top left"] >>

BackgroundTypes == {"wallpaper", "gradient", "solid", "image"}
ExportFormats == {"png", "jpeg", "webp"}
BlurValues == {0, 20, 40}

\* A File: its MIME type as a sequence of characters, and the data URI that
\* FileReader.readAsDataURL produces for it.
pngFile == [type |-> <<"i","m","a","g","e","/","p","n","g">>,
            dataURL |-> "data:image/png;base64,iVBORw0KGgo="]
jpegFile == [type |-> <<"i","m","a","g","e","/","j","p","e","g">>,
             dataURL |-> "data:image/jpeg;base64,/9j/4AAQSkZJRg=="]
textFile == [type |-> <<"t","e","x","t","/","p","l","a","i","n">>,
             dataURL |-> "data:text/plain;base64,aGVsbG8="]
Files == {pngFile, jpegFile, textFile}

\* String.prototype.startsWith on character sequences
startsWith(s, prefix) ==
    /\ Len(s) >= Len(prefix)
    /\ SubSeq(s, 1, Len(prefix)) = prefix

imagePrefix == <<"i","m","a","g","e","/">>

-----------------------------------------------------------------------------
(* Canvas: geometry, Canvas.tsx:18-44 and 85-96 *)

RECURSIVE GCD(_, _)
GCD(a, b) == IF b = 0 THEN a ELSE GCD(b, a % b)

Abs(n) == IF n < 0 THEN -n ELSE n

\* the fraction n / d, d > 0, in lowest terms
Frac(n, d) ==
    LET g == GCD(Abs(n), d) IN [num |-> n \div g, den |-> d \div g]

FracLE(a, b) == a.num * b.den <= b.num * a.den
FracMin(a, b) == IF FracLE(a, b) THEN a ELSE b
FracMul(a, b) == Frac(a.num * b.num, a.den * b.den)
\* Math.round of a fraction
FracRound(a) == (2 * a.num + a.den) \div (2 * a.den)
One == Frac(1, 1)

\* const padding = 60, Canvas.tsx:23
previewPadding == 60
\* const baseWidth = 1200, Canvas.tsx:28 and 87
baseWidth == 1200
\* const pixelRatio = 2, part_000:101 and 136
pixelRatio == 2

AspectRatios == {"16/9", "4/3", "1/1", "9/16"}

\* settings.aspectRatio.split('/').map(Number), Canvas.tsx:31 and 86
splitAspect(aspectRatio) ==
    CASE aspectRatio = "16/9" -> <<16, 9>>
      [] aspectRatio = "4/3"  -> <<4, 3>>
      [] aspectRatio = "1/1"  -> <<1, 1>>
      [] aspectRatio = "9/16" -> <<9, 16>>

baseHeightSwapped(aspectRatio) ==
    Frac(baseWidth * splitAspect(aspectRatio)[1], splitAspect(aspectRatio)[2])

\* baseWidth * (aspectH / aspectW), Canvas.tsx:32 and 88
baseHeight(aspectRatio) ==
    Frac(baseWidth * splitAspect(aspectRatio)[2], splitAspect(aspectRatio)[1])

\* a listener that keeps the aspect ratio of the first render
calculateScaleMountRatio(size, aspectRatio) ==
    FracMin(One, FracMin(Frac(size[1] - previewPadding, baseWidth),
                         Frac((size[2] - previewPadding) * baseHeight("16/9").den,
                              baseHeight("16/9").num)))

\* calculateScale for a container of clientWidth x clientHeight, Canvas.tsx:19-39
calculateScale(size, aspectRatio) ==
    LET availableWidth == size[1] - previewPadding
        availableHeight == size[2] - previewPadding
        bh == baseHeight(aspectRatio)
        scaleX == Frac(availableWidth, baseWidth)
        scaleY == Frac(availableHeight * bh.den, bh.num)
    IN  FracMin(One, FracMin(scaleX, scaleY))

\* const headerHeight = 32, Canvas.tsx:91
headerHeight == 32

Zero == Frac(0, 1)
FracSub(a, b) == Frac(a.num * b.den - b.num * a.den, a.den * b.den)
FracMax(a, b) == IF FracLE(a, b) THEN b ELSE a

\* baseWidth - (padding * 2), Canvas.tsx:95
maxImgWidth(padding) == baseWidth - (padding * 2)

maxImgHeightUnclamped(padding, aspectRatio) ==
    FracSub(baseHeight(aspectRatio), Frac(padding * 2 + headerHeight, 1))

\* Math.max(0, baseHeight - (padding * 2) - headerHeight), Canvas.tsx:96
maxImgHeight(padding, aspectRatio) ==
    FracMax(Zero, FracSub(FracSub(baseHeight(aspectRatio), Frac(padding * 2, 1)),
                          Frac(headerHeight, 1)))

\* const baseStyle: React.CSSProperties = {}, Canvas.tsx:62; a template string is
\* kept as the function it names and the values it is built from
baseStyle ==
    [backgroundColor    |-> "unset",
     backgroundImage    |-> [fn |-> "unset", args |-> <<>>],
     backgroundSize     |-> "unset",
     backgroundPosition |-> "unset",
     filter             |-> [fn |-> "unset", px |-> 0],
     transform          |-> [fn |-> "unset", percent |-> 0]]

\* the bitmap branch of getBackgroundStyle, Canvas.tsx:68-77
bitmapStyle(bg) ==
    IF bg.blur > 0
    THEN [baseStyle EXCEPT !.backgroundImage = [fn |-> "url", args |-> <<bg.image>>],
                           !.backgroundSize = "cover",
                           !.backgroundPosition = "center",
                           !.filter = [fn |-> "blur", px |-> bg.blur],
                           !.transform = [fn |-> "scale", percent |-> 105]]
    ELSE [baseStyle EXCEPT !.backgroundImage = [fn |-> "url", args |-> <<bg.image>>],
                           !.backgroundSize = "cover",
                           !.backgroundPosition = "center"]

\* a mapping without the final else branch
getBackgroundStyleNoDefault(bg) ==
    IF bg.type = "solid" THEN [baseStyle EXCEPT !.backgroundColor = bg.solid]
    ELSE IF bg.type = "gradient"
    THEN [baseStyle EXCEPT !.backgroundImage =
              [fn |-> "linear-gradient",
               args |-> <<bg.gradient.direction, bg.gradient.start, bg.gradient.end>>]]
    ELSE IF bg.type \in {"wallpaper", "image"} THEN bitmapStyle(bg)
    ELSE baseStyle

\* a mapping that blurs whatever the type
getBackgroundStyleBlurAll(bg) ==
    IF bg.type = "solid"
    THEN [baseStyle EXCEPT !.backgroundColor = bg.solid,
                           !.filter = IF bg.blur > 0 THEN [fn |-> "blur", px |-> bg.blur]
                                      ELSE @]
    ELSE IF bg.type = "gradient"
    THEN [baseStyle EXCEPT !.backgroundImage =
              [fn |-> "linear-gradient",
               args |-> <<bg.gradient.direction, bg.gradient.start, bg.gradient.end>>],
                           !.filter = IF bg.blur > 0 THEN [fn |-> "blur", px |-> bg.blur]
                                      ELSE @]
    ELSE IF bg.type \in {"wallpaper", "image"} THEN bitmapStyle(bg)
    ELSE [baseStyle EXCEPT !.backgroundColor = "#000"]

\* getBackgroundStyle for settings.background = bg, Canvas.tsx:59-83
getBackgroundStyle(bg) ==
    IF bg.type = "solid" THEN [baseStyle EXCEPT !.backgroundColor = bg.solid]
    ELSE IF bg.type = "gradient"
    THEN [baseStyle EXCEPT !.backgroundImage =
              [fn |-> "linear-gradient",
               args |-> <<bg.gradient.direction, bg.gradient.start, bg.gradient.end>>]]
    ELSE IF bg.type = "wallpaper" \/ bg.type = "image" THEN bitmapStyle(bg)
    ELSE [baseStyle EXCEPT !.backgroundColor = "#000"]

\* what one render of the Canvas computes: the background style and the image
\* constraints, Canvas.tsx:59-96
canvasLayout(s) ==
    [rendered        |-> TRUE,
     maxImgWidth     |-> maxImgWidth(s.padding),
     maxImgHeight    |-> maxImgHeight(s.padding, s.aspectRatio),
     backgroundStyle |-> getBackgroundStyle(s.background)]

NoFrame == [present |-> FALSE, width |-> 0, height |-> Frac(0, 1)]

\* an export frame that takes the preview transform with it
exportFrameScaled(s, img) ==
    IF img = Null THEN NoFrame
    ELSE [present |-> TRUE,
          width |-> FracRound(FracMul(Frac(baseWidth, 1), previewScale)),
          height |-> FracMul(baseHeight(s.aspectRatio), previewScale)]

\* The node exportRef points to: rendered only while an image is loaded, with
\* width baseWidth and height baseHeight; the preview transform is on its parent,
\* Canvas.tsx:142-158
exportFrame(s, img) ==
    IF img = Null THEN NoFrame
    ELSE [present |-> TRUE, width |-> baseWidth, height |-> baseHeight(s.aspectRatio)]

-----------------------------------------------------------------------------
(* App: initial state, part_000:8-36 and the mount effect part_000:70-83 *)

defaultSettings ==
    [ padding        |-> 64,
      borderRadius   |-> 16,
      rotate         |-> 0,
      scale          |-> 100,
      aspectRatio    |-> "16/9",
      background     |-> [ type     |-> "wallpaper",
                           solid    |-> "#1a1a1a",
                           gradient |-> [ start     |-> "#09203f",
                                          end       |-> "#537895",
                                          direction |-> "to top" ],
                           image    |-> "",
                           blur     |-> 0 ],
      shadow         |-> [ size |-> "xl", color |-> "#000000", opacity |-> 50 ],
      darkModeWindow |-> TRUE,
      outputFormat   |-> "jpeg" ]

\* loadDefaultWallpaper: setSettings(prev => ({...prev, background: {...prev.background, image}}))
loadDefaultWallpaper(prev) ==
    [prev EXCEPT !.background =
        [prev.background EXCEPT !.image = "/wallpapers/hires/gradient-wallpaper-0001.jpg"]]

\* setSettings(prev => ({ ...prev, ...newSettings }))
updateSettingsReversed(prev, newSettings) ==
    [k \in DOMAIN prev \cup DOMAIN newSettings |->
        IF k \in DOMAIN prev THEN prev[k] ELSE newSettings[k]]

updateSettings(prev, newSettings) ==
    [k \in DOMAIN prev \cup DOMAIN newSettings |->
        IF k \in DOMAIN newSettings THEN newSettings[k] ELSE prev[k]]

NoUpdate == [k \in {} |-> k]

\* what an operation was given: the items of its source, the rasterizer's outcome
\* and the image the user asks for with it ("same": none)
NoArg == [items |-> <<>>, outcome |-> "none", request |-> "same"]

\* history of one operation
RecordArg(op, partial, arg) ==
    /\ last' = [op |-> op, pre |-> settings, partial |-> partial]
    /\ snap' = [image |-> image, reads |-> imgReads, alerts |-> alerts,
                downloads |-> Len(downloads), clipboard |-> Len(clipboard),
                arg |-> arg,
                requested |-> IF arg.request = "same" THEN snap.requested
                              ELSE arg.request]

\* an operation that leaves the settings alone: the Canvas constraints stay
Record(op, partial) ==
    /\ RecordArg(op, partial, NoArg)
    /\ UNCHANGED layout

\* A call of updateSettings by operation op; the Canvas renders again with the
\* new settings.  A run of type switches ends with every other update.
Update(op, partial) ==
    /\ settings' = updateSettings(settings, partial)
    /\ RecordArg(op, partial, NoArg)
    /\ layout' = canvasLayout(updateSettings(settings, partial))
    /\ toggleBase' = IF op = "setBgType" THEN toggleBase
                     ELSE updateSettings(settings, partial).background

UserEvent ==
    /\ events < MaxEvents
    /\ events' = events + 1

-----------------------------------------------------------------------------
(* Palette service, part_001 *)

\* Values a response text can parse to
JsonNull == [jsonNull |-> TRUE]
PaletteColors == {"#111111", "#222222", "#333333"}
\* the service is asked for distinct colours: the lists without repetition
ColorLists ==
    UNION {{c \in [1..n -> PaletteColors] : \A i, j \in 1..n : c[i] = c[j] => i = j} :
           n \in 0..MaxColors}
JsonValues ==
    {[colors |-> c] : c \in ColorLists}
        \cup {[description |-> "flat blue interface"], JsonNull}

\* What ai.models.generateContent does: it rejects, or it resolves with a response
\* whose text is undefined, empty, not JSON, or the JSON text of a value
Responses ==
    {[kind |-> k, value |-> JsonNull] : k \in {"rejected", "undefined", "empty", "malformed"}}
        \cup {[kind |-> "json", value |-> v] : v \in JsonValues}

\* generateContent was not called
NotCalled == [kind |-> "notCalled", value |-> JsonNull]

fallbackNoKey == [colors |-> <<"#3b82f6", "#8b5cf6", "#ec4899">>]
fallbackError == [colors |-> <<"#18181b", "#27272a", "#3f3f46">>,
                  description |-> "Fallback Dark Mode"]

Fulfilled(v) == [state |-> "fulfilled", value |-> v]
Rejected == [state |-> "rejected", value |-> JsonNull]
Threw == [threw |-> TRUE, value |-> JsonNull]
Returned(v) == [threw |-> FALSE, value |-> v]

\* the try block, part_001:13-60
generateBody(response) ==
    IF response.kind = "rejected" THEN Threw                      \* await rejects
    ELSE IF response.kind \in {"undefined", "empty"} THEN Threw    \* !jsonText
    ELSE IF response.kind = "malformed" THEN Threw                 \* JSON.parse throws
    ELSE Returned(response.value)

\* a catch block that logs and rethrows
tryCatchRethrow(body) ==
    IF body.threw THEN Rejected ELSE Fulfilled(body.value)

\* try { ... } catch (error) { return fallback }, part_001:13-65
tryCatch(body) ==
    IF body.threw THEN Fulfilled(fallbackError) ELSE Fulfilled(body.value)

\* generateSmartPalette, part_001:7-66: how its promise settles
generateSmartPalette(key, response) ==
    IF key = "" THEN Fulfilled(fallbackNoKey)
    ELSE tryCatch(generateBody(response))

-----------------------------------------------------------------------------
(* Sidebar: the partial each call site passes to updateSettings, built from *)
(* the settings s of the handler's render                                   *)

setBgTypeResetBlur(s, type) ==
    [background |-> [s.background EXCEPT !.type = type, !.blur = 0]]

\* Sidebar.tsx:64-66
setBgType(s, type) ==
    [background |-> [s.background EXCEPT !.type = type]]

\* Sidebar.tsx:110-116
selectWallpaperUpdate(s, wallpaper) ==
    [background |-> [s.background EXCEPT !.type = "wallpaper",
                                         !.image = hiResWallpaper(wallpaper)]]

\* Sidebar.tsx:76-82
processFileUpdate(s, dataURL) ==
    [background |-> [s.background EXCEPT !.type = "image", !.image = dataURL]]

\* Sidebar.tsx:186, 192, 200
solidUpdate(s, c) ==
    [background |-> [s.background EXCEPT !.solid = c]]

\* Sidebar.tsx:219-224
gradientStartUpdate(s, c) ==
    [background |-> [s.background EXCEPT !.gradient.start = c]]

\* Sidebar.tsx:236-241
gradientEndUpdate(s, c) ==
    [background |-> [s.background EXCEPT !.gradient.end = c]]

\* Sidebar.tsx:256-261
gradientDirectionUpdate(s, d) ==
    [background |-> [s.background EXCEPT !.gradient.direction = d]]

\* Sidebar.tsx:322-324
blurUpdate(s, b) ==
    [background |-> [s.background EXCEPT !.blur = b]]

paletteUpdateFirstTwo(s, colors) ==
    [background |-> [s.background EXCEPT
        !.type = "gradient",
        !.gradient = [start |-> colors[1], end |-> colors[2],
                      direction |-> "to bottom right"]]]

\* part_002:65-75
paletteUpdate(s, colors) ==
    [background |-> [s.background EXCEPT
        !.type = "gradient",
        !.gradient = [start |-> colors[1], end |-> colors[Len(colors)],
                      direction |-> "to bottom right"]]]

-----------------------------------------------------------------------------
(* Sidebar: background controls *)

\* the type toggle, Sidebar.tsx:137-145
SetBgType(type) ==
    /\ UserEvent
    /\ Update("setBgType", setBgType(settings, type))
    /\ UNCHANGED <<image, isAnalyzing, apiKey, paletteReqs, paletteCall,
                   bgReads, imgReads, lastWallpaper>>
    /\ UNCHANGED <<exportVars, canvasVars>>

\* the wallpaper grid, shown for type wallpaper, Sidebar.tsx:149-177, 106-122
SelectWallpaper(wallpaper) ==
    /\ settings.background.type = "wallpaper"
    /\ UserEvent
    /\ Update("selectWallpaper", selectWallpaperUpdate(settings, wallpaper))
    /\ lastWallpaper' = hiResWallpaper(wallpaper)
    /\ UNCHANGED <<image, isAnalyzing, apiKey, paletteReqs, paletteCall,
                   bgReads, imgReads>>
    /\ UNCHANGED <<exportVars, canvasVars>>

\* colour input, text input and swatches, shown for type solid, Sidebar.tsx:180-207
SetSolid(c) ==
    /\ settings.background.type = "solid"
    /\ UserEvent
    /\ Update("solid", solidUpdate(settings, c))
    /\ UNCHANGED <<image, isAnalyzing, apiKey, paletteReqs, paletteCall,
                   bgReads, imgReads, lastWallpaper>>
    /\ UNCHANGED <<exportVars, canvasVars>>

\* gradient controls, shown for type gradient, Sidebar.tsx:210-272
SetGradientStart(c) ==
    /\ settings.background.type = "gradient"
    /\ UserEvent
    /\ Update("gradientStart", gradientStartUpdate(settings, c))
    /\ UNCHANGED <<image, isAnalyzing, apiKey, paletteReqs, paletteCall,
                   bgReads, imgReads, lastWallpaper>>
    /\ UNCHANGED <<exportVars, canvasVars>>

SetGradientEnd(c) ==
    /\ settings.background.type = "gradient"
    /\ UserEvent
    /\ Update("gradientEnd", gradientEndUpdate(settings, c))
    /\ UNCHANGED <<image, isAnalyzing, apiKey, paletteReqs, paletteCall,
                   bgReads, imgReads, lastWallpaper>>
    /\ UNCHANGED <<exportVars, canvasVars>>

\* a button for every entry of directions
SetGradientDirectionAll(i) ==
    /\ settings.background.type = "gradient"
    /\ UserEvent
    /\ Update("gradientDirection", gradientDirectionUpdate(settings, directions[i].value))
    /\ UNCHANGED <<image, isAnalyzing, apiKey, paletteReqs, paletteCall,
                   bgReads, imgReads, lastWallpaper>>
    /\ UNCHANGED <<exportVars, canvasVars>>

\* one button per entry of directions except the one labelled C, Sidebar.tsx:252-268
SetGradientDirection(i) ==
    /\ settings.background.type = "gradient"
    /\ directions[i].label # "C"
    /\ UserEvent
    /\ Update("gradientDirection", gradientDirectionUpdate(settings, directions[i].value))
    /\ UNCHANGED <<image, isAnalyzing, apiKey, paletteReqs, paletteCall,
                   bgReads, imgReads, lastWallpaper>>
    /\ UNCHANGED <<exportVars, canvasVars>>

\* the blur slider, shown for types wallpaper and image, Sidebar.tsx:311-328
SetBlur(b) ==
    /\ settings.background.type \in {"wallpaper", "image"}
    /\ UserEvent
    /\ Update("blur", blurUpdate(settings, b))
    /\ UNCHANGED <<image, isAnalyzing, apiKey, paletteReqs, paletteCall,
                   bgReads, imgReads, lastWallpaper>>
    /\ UNCHANGED <<exportVars, canvasVars>>

\* the upload zone, shown for type image: handleCustomImageUpload / handleDrop call
\* processFile, which starts a FileReader, Sidebar.tsx:68-85, 97-104, 275-301
BgUploadStart(file) ==
    /\ settings.background.type = "image"
    /\ UserEvent
    /\ bgReads' = Append(bgReads, [settings |-> settings, file |-> file])
    /\ Record("bgUploadStart", NoUpdate)
    /\ UNCHANGED <<settings, image, isAnalyzing, apiKey, paletteReqs, paletteCall,
                   imgReads, toggleBase, lastWallpaper>>
    /\ UNCHANGED <<exportVars, canvasVars>>

\* reader.onload of the i-th read in flight, Sidebar.tsx:75-83
BgReadDone(i) ==
    /\ i \in 1..Len(bgReads)
    /\ Update("bgUpload", processFileUpdate(bgReads[i].settings, bgReads[i].file.dataURL))
    /\ bgReads' = RemoveAt(bgReads, i)
    /\ UNCHANGED <<image, isAnalyzing, apiKey, paletteReqs, paletteCall,
                   imgReads, events, lastWallpaper>>
    /\ UNCHANGED <<exportVars, canvasVars>>

\* the format selector, Sidebar.tsx:440-448
SetOutputFormat(f) ==
    /\ UserEvent
    /\ Update("outputFormat", [outputFormat |-> f])
    /\ UNCHANGED <<image, isAnalyzing, apiKey, paletteReqs, paletteCall,
                   bgReads, imgReads, lastWallpaper>>
    /\ UNCHANGED <<exportVars, canvasVars>>

-----------------------------------------------------------------------------
(* Sidebar: frame, shadow and window controls, Sidebar.tsx:352-429 *)

\* positions of the range inputs: padding min 0 max 128, roundness min 0 max 48,
\* scale min 0.5 max 1.5 step 0.05 (in hundredths)
PaddingValues == {0, 128}
RadiusValues == {0, 48}
ScaleValues == {50, 150}
\* the shadow buttons, Sidebar.tsx:407
ShadowSizes == {"none", "md", "xl", "2xl"}

\* a padding slider whose max attribute is 512
PaddingRangeWide == 0..512

\* every value of the padding slider (min 0, max 128, step 1), Sidebar.tsx:358-365
PaddingRange == 0..128

\* the padding slider, Sidebar.tsx:358-365
SetPadding(padding) ==
    /\ UserEvent
    /\ Update("padding", [padding |-> padding])
    /\ UNCHANGED <<image, isAnalyzing, apiKey, paletteReqs, paletteCall,
                   bgReads, imgReads, lastWallpaper>>
    /\ UNCHANGED <<exportVars, canvasVars>>

\* the roundness slider, Sidebar.tsx:374-381
SetBorderRadius(radius) ==
    /\ UserEvent
    /\ Update("borderRadius", [borderRadius |-> radius])
    /\ UNCHANGED <<image, isAnalyzing, apiKey, paletteReqs, paletteCall,
                   bgReads, imgReads, lastWallpaper>>
    /\ UNCHANGED <<exportVars, canvasVars>>

\* the scale slider, Sidebar.tsx:390-398
SetScale(scale) ==
    /\ UserEvent
    /\ Update("scale", [scale |-> scale])
    /\ UNCHANGED <<image, isAnalyzing, apiKey, paletteReqs, paletteCall,
                   bgReads, imgReads, lastWallpaper>>
    /\ UNCHANGED <<exportVars, canvasVars>>

shadowUpdateSizeOnly(s, size) ==
    [shadow |-> [size |-> size]]

\* { shadow: { ...settings.shadow, size: s } }, Sidebar.tsx:410
shadowUpdate(s, size) ==
    [shadow |-> [s.shadow EXCEPT !.size = size]]

\* the shadow buttons, Sidebar.tsx:407-415
SetShadowSize(size) ==
    /\ UserEvent
    /\ Update("shadow", shadowUpdate(settings, size))
    /\ UNCHANGED <<image, isAnalyzing, apiKey, paletteReqs, paletteCall,
                   bgReads, imgReads, lastWallpaper>>
    /\ UNCHANGED <<exportVars, canvasVars>>

\* the Dark Mode Window checkbox: e.target.checked is the opposite of what it
\* shows, Sidebar.tsx:424-428
SetDarkModeWindow ==
    /\ UserEvent
    /\ Update("darkModeWindow", [darkModeWindow |-> ~settings.darkModeWindow])
    /\ UNCHANGED <<image, isAnalyzing, apiKey, paletteReqs, paletteCall,
                   bgReads, imgReads, lastWallpaper>>
    /\ UNCHANGED <<exportVars, canvasVars>>

-----------------------------------------------------------------------------
(* Sidebar: AI Match, part_002:59-82 and 162-180 *)

\* the continuation of handleSmartPalette after the await, run with the settings s
\* of the render in which the button was clicked: the partial it passes to
\* updateSettings, or NoUpdate
handleSmartPaletteUpdate(s, settled) ==
    IF settled.state = "rejected" THEN NoUpdate                  \* catch (e)
    ELSE IF "jsonNull" \in DOMAIN settled.value THEN NoUpdate     \* TypeError, catch (e)
    ELSE IF "colors" \in DOMAIN settled.value /\ Len(settled.value.colors) >= 2
         THEN paletteUpdate(s, settled.value.colors)
    ELSE NoUpdate

\* handleSmartPalette from the call of generateSmartPalette on
PaletteApply(s, response) ==
    LET settled == generateSmartPalette(apiKey, response) IN
    /\ paletteCall' = [response |-> response, settled |-> settled]
    /\ IF DOMAIN handleSmartPaletteUpdate(s, settled) = {}
       THEN /\ Record("palette", NoUpdate)
            /\ UNCHANGED <<settings, toggleBase>>
       ELSE Update("palette", handleSmartPaletteUpdate(s, settled))

\* A click on AI Match (rendered when imageData is set, disabled while isAnalyzing).
\* Without a credential generateSmartPalette returns before any await, so the whole
\* handler finishes before the next event; with one, the request stays in flight.
PaletteClick ==
    /\ image # Null
    /\ ~isAnalyzing
    /\ UserEvent
    /\ IF apiKey = ""
       THEN /\ PaletteApply(settings, NotCalled)
            /\ UNCHANGED <<isAnalyzing, paletteReqs>>
       ELSE /\ isAnalyzing' = TRUE
            /\ paletteReqs' = Append(paletteReqs, [settings |-> settings, imageData |-> image])
            /\ Record("paletteClick", NoUpdate)
            /\ UNCHANGED <<settings, paletteCall, toggleBase>>
    /\ UNCHANGED <<image, apiKey, bgReads, imgReads, lastWallpaper>>
    /\ UNCHANGED <<exportVars, canvasVars>>

\* handleSmartPalette with setIsAnalyzing(false) as the last statement of the try
\* block instead of the finally block: an exception in the handler skips it
PaletteDoneNoFinally(i, response) ==
    /\ i \in 1..Len(paletteReqs)
    /\ PaletteApply(paletteReqs[i].settings, response)
    /\ isAnalyzing' = ("jsonNull" \in DOMAIN generateSmartPalette(apiKey, response).value)
    /\ paletteReqs' = RemoveAt(paletteReqs, i)
    /\ UNCHANGED <<image, apiKey, bgReads, imgReads, events, lastWallpaper>>
    /\ UNCHANGED <<exportVars, canvasVars>>

\* generateContent settles; generateSmartPalette settles; handleSmartPalette resumes
PaletteDone(i, response) ==
    /\ i \in 1..Len(paletteReqs)
    /\ PaletteApply(paletteReqs[i].settings, response)
    /\ isAnalyzing' = FALSE
    /\ paletteReqs' = RemoveAt(paletteReqs, i)
    /\ UNCHANGED <<image, apiKey, bgReads, imgReads, events, lastWallpaper>>
    /\ UNCHANGED <<exportVars, canvasVars>>

-----------------------------------------------------------------------------
(* Canvas: the preview scale effect, Canvas.tsx:18-44 *)

\* before the first render of the Canvas
NotRendered ==
    [rendered |-> FALSE, maxImgWidth |-> 0, maxImgHeight |-> Zero,
     backgroundStyle |-> baseStyle]

\* a render of the Canvas with the current settings, Canvas.tsx:86-96
RenderCanvas ==
    /\ ~layout.rendered
    /\ layout' = canvasLayout(settings)
    /\ RecordArg("render", NoUpdate, NoArg)
    /\ UNCHANGED <<settingsVars, exportVars, canvasVars, events, toggleBase,
                   lastWallpaper>>

\* sizes of the preview container the window is resized to
ContainerSizes == {<<1600, 900>>, <<660, 400>>, <<400, 700>>}

\* sizes that include containers no larger than the preview margin
PreviewSizes == ContainerSizes \cup {<<60, 400>>, <<50, 30>>, <<1260, 735>>}

\* a resize event: the listener of the current effect runs, Canvas.tsx:42
Resize(size) ==
    /\ UserEvent
    /\ container' = size
    /\ previewScale' = calculateScale(size, settings.aspectRatio)
    /\ Record("resize", NoUpdate)
    /\ UNCHANGED <<settingsVars, exportVars, toggleBase, lastWallpaper>>

\* the aspect ratio buttons, Sidebar.tsx:340-348; the effect of Canvas.tsx:18-44
\* runs again because settings.aspectRatio changed
SetAspectRatio(r) ==
    /\ UserEvent
    /\ Update("aspectRatio", [aspectRatio |-> r])
    /\ previewScale' = calculateScale(container, r)
    /\ UNCHANGED <<image, isAnalyzing, apiKey, paletteReqs, paletteCall,
                   bgReads, imgReads, lastWallpaper, exportVars, container>>

-----------------------------------------------------------------------------
(* App: image ingestion, part_000:39-67 and 85-93, Canvas.tsx:104-111 and 222-231 *)

\* a file whose type names an image without being an image type
rawFile == [type |-> <<"x","-","i","m","a","g","e","/","r","a","w">>,
            dataURL |-> "data:x-image/raw;base64,AAAA"]
IngestFiles == Files \cup {rawFile}

\* no File: getAsFile() of a string item, files[0] of an empty selection
NoFile == [type |-> <<>>, dataURL |-> ""]

\* String.prototype.indexOf(sub) !== -1 on character sequences
contains(s, sub) ==
    \E i \in 1..(Len(s) - Len(sub) + 1) : SubSeq(s, i, i + Len(sub) - 1) = sub

imageWord == <<"i","m","a","g","e">>
htmlType == <<"t","e","x","t","/","h","t","m","l">>
imageUrlType == <<"t","e","x","t","/","x","-","i","m","a","g","e","-","u","r","l">>

\* DataTransferItem: kind, type and, for kind file, the File
fileItem(f) == [kind |-> "file", type |-> f.type, file |-> f]
stringItem(t) == [kind |-> "string", type |-> t, file |-> NoFile]
getAsFile(item) == IF item.kind = "file" THEN item.file ELSE NoFile

\* what a clipboard holds at a paste event: up to MaxItems items,
PasteItems ==
    {fileItem(f) : f \in IngestFiles \ {jpegFile}}
        \cup {stringItem(htmlType), stringItem(imageUrlType)}
\* no item twice
Clipboards ==
    UNION {{c \in [1..n -> PasteItems] : \A i, j \in 1..n : c[i] = c[j] => i = j} :
           n \in 1..MaxItems}

\* the loop of handlePaste: the index of the first item whose type contains
\* 'image', 0 if there is none, part_000:53-54
RECURSIVE firstImageItem(_, _)
firstImageItem(items, i) ==
    IF i > Len(items) THEN 0
    ELSE IF contains(items[i].type, imageWord) THEN i
    ELSE firstImageItem(items, i + 1)

pasteFileFirstItem(items) ==
    IF contains(items[1].type, imageWord) THEN getAsFile(items[1]) ELSE NoFile

\* the file handlePaste hands to processFile: that of the first item whose type
\* contains 'image'; the loop ends there (break), part_000:53-62
pasteFile(items) ==
    IF firstImageItem(items, 1) = 0 THEN NoFile
    ELSE getAsFile(items[firstImageItem(items, 1)])

ProcessFileUnchecked(file) ==
    imgReads' = Append(imgReads, file)

\* processFile: an image file starts a FileReader, anything else is ignored
ProcessFile(file) ==
    IF startsWith(file.type, imagePrefix)
    THEN imgReads' = Append(imgReads, file)
    ELSE UNCHANGED imgReads

\* an ingestion event: nothing but the reads in flight can change
Ingest(entry, items, file) ==
    /\ UserEvent
    /\ RecordArg(entry, NoUpdate,
                 [items |-> items, outcome |-> "none",
                  request |-> IF startsWith(file.type, imagePrefix) THEN file.dataURL
                              ELSE "same"])
    /\ UNCHANGED <<settings, image, isAnalyzing, apiKey, paletteReqs, paletteCall,
                   bgReads, toggleBase, lastWallpaper, layout>>
    /\ UNCHANGED <<exportVars, canvasVars>>

\* handleUpload with a file selected (the picker shown while no image is loaded)
UploadFile(file) ==
    /\ image = Null
    /\ ProcessFile(file)
    /\ Ingest("upload", <<fileItem(file)>>, file)

\* Canvas.handleDrop: onFileDrop(e.dataTransfer.files[0]) is processFile,
\* Canvas.tsx:104-111, part_000:188
DropFile(file) ==
    /\ ProcessFile(file)
    /\ Ingest("drop", <<fileItem(file)>>, file)

\* handlePaste, part_000:50-64
Paste(items) ==
    /\ IF pasteFile(items) # NoFile
       THEN ProcessFile(pasteFile(items))
       ELSE UNCHANGED imgReads
    /\ Ingest("paste", items, pasteFile(items))

\* reader.onload of the i-th read in flight
ImgReadDone(i) ==
    /\ i \in 1..Len(imgReads)
    /\ image' = imgReads[i].dataURL
    /\ imgReads' = RemoveAt(imgReads, i)
    /\ RecordArg("imageLoaded", NoUpdate,
                 [items |-> <<fileItem(imgReads[i])>>, outcome |-> "none",
                  request |-> "same"])
    /\ UNCHANGED <<settings, isAnalyzing, apiKey, paletteReqs, paletteCall,
                   bgReads, events, toggleBase, lastWallpaper, layout>>
    /\ previewScale' = calculateScale(container, settings.aspectRatio)
    /\ UNCHANGED <<exportVars, container>>

noFileSelectedKeeps(img) == img

\* handleUpload without a file: setImage(null), part_000:89-92
noFileSelected(img) == Null

\* handleUpload without a file: the Reset Image button, shown while an image is
\* loaded, Canvas.tsx:222-231
ResetImage ==
    /\ image # Null
    /\ UserEvent
    /\ image' = noFileSelected(image)
    /\ previewScale' = calculateScale(container, settings.aspectRatio)
    /\ RecordArg("reset", NoUpdate, [NoArg EXCEPT !.request = Null])
    /\ UNCHANGED layout
    /\ UNCHANGED <<settings, isAnalyzing, apiKey, paletteReqs, paletteCall,
                   bgReads, imgReads, toggleBase, lastWallpaper>>
    /\ UNCHANGED <<exportVars, container>>

\* handleUpload without a file: a change event of the picker with an empty
\* selection, while no image is loaded, part_000:85-93
UploadEmpty ==
    /\ image = Null
    /\ UserEvent
    /\ image' = noFileSelected(image)
    /\ Record("uploadEmpty", NoUpdate)
    /\ UNCHANGED <<settings, isAnalyzing, apiKey, paletteReqs, paletteCall,
                   bgReads, imgReads, toggleBase, lastWallpaper>>
    /\ UNCHANGED <<exportVars, canvasVars>>

-----------------------------------------------------------------------------
(* App and Sidebar: export and copy, part_000:95-168, Sidebar.tsx:451-513 *)

idleLabel == "Export"

\* What a call of the rasterizer (html-to-image) does: it resolves with an image,
\* toBlob may resolve with null, or it rejects
RasterOutcomes == {"ok", "null", "rejected"}

backgroundColorAlwaysSolid(s) == s.background.solid

\* settings.background.type === 'solid' ? settings.background.solid : '#000'
backgroundColor(s) ==
    IF s.background.type = "solid" THEN s.background.solid ELSE "#000"

\* the rasterizer call handleDownload makes for the settings s of its render on
\* the node exportRef points to, part_000:136-149
downloadCall(s, frame) ==
    CASE s.outputFormat = "png" ->
            [fn |-> "toPng", type |-> "image/png", pixelRatio |-> pixelRatio,
             backgroundColor |-> "unset", frame |-> frame]
      [] s.outputFormat = "jpeg" ->
            [fn |-> "toJpeg", type |-> "image/jpeg", pixelRatio |-> pixelRatio,
             backgroundColor |-> backgroundColor(s), frame |-> frame]
      [] s.outputFormat = "webp" ->
            [fn |-> "toBlob", type |-> "image/webp", pixelRatio |-> pixelRatio,
             backgroundColor |-> "unset", frame |-> frame]

copyCallSelectedFormat(s, frame) ==
    [fn |-> "toBlob", type |-> downloadCall(s, frame).type, pixelRatio |-> pixelRatio,
     backgroundColor |-> backgroundColor(s), frame |-> frame]

\* the rasterizer call of handleCopy, part_000:101-111
copyCall(s, frame) ==
    [fn |-> "toBlob", type |-> "image/png", pixelRatio |-> pixelRatio,
     backgroundColor |-> backgroundColor(s), frame |-> frame]

NoCall == [fn |-> "none", type |-> "none", pixelRatio |-> 0,
           backgroundColor |-> "unset", frame |-> NoFrame]

\* A click on the export button: handleDownload up to its first await,
\* part_000:124-133.  The button carries no disabled attribute, Sidebar.tsx:501-505.
ExportClick ==
    /\ image # Null
    /\ UserEvent
    /\ exportOps' = Append(exportOps,
            [settings |-> settings, originalText |-> exportLabel,
             pc |-> "delay", call |-> NoCall])
    /\ exportLabel' = "Generating..."
    /\ Record("exportClick", NoUpdate)
    /\ UNCHANGED <<settingsVars, canvasVars, toggleBase, lastWallpaper>>
    /\ UNCHANGED <<copied, isCopying, copyOps, copiedTimers, downloads, objectURLs,
                   clipboard, alerts, lastRaster>>

\* the 100 ms timer of the i-th export fires and the rasterizer is called on the
\* node exportRef points to now, part_000:133-145
ExportRasterize(i) ==
    /\ i \in 1..Len(exportOps)
    /\ exportOps[i].pc = "delay"
    /\ LET call == downloadCall(exportOps[i].settings, exportFrame(settings, image)) IN
        /\ exportOps' = [exportOps EXCEPT ![i].pc = "raster", ![i].call = call]
        /\ lastRaster' = [by |-> "export", settings |-> exportOps[i].settings,
                          call |-> call, aspectRatio |-> settings.aspectRatio]
    /\ Record("exportRasterize", NoUpdate)
    /\ UNCHANGED <<settingsVars, canvasVars, events, toggleBase, lastWallpaper>>
    /\ UNCHANGED <<exportLabel, copied, isCopying, copyOps, copiedTimers, downloads,
                   objectURLs, clipboard, alerts>>

\* the finally block, part_000:165-167
restoreLabel(originalText, label) ==
    IF originalText # "" THEN originalText ELSE label

downloadStepsNoRevoke(format, outcome) ==
    IF outcome = "rejected" THEN <<"alert">>
    ELSE IF outcome = "null" THEN <<>>
    ELSE IF format = "webp" THEN <<"createObjectURL", "click">>
    ELSE <<"click">>

\* what handleDownload does, in order, once the rasterizer call has settled:
\* a rejection goes to the catch block; a null blob leaves downloadUrl unset;
\* otherwise the link is clicked, for webp between createObjectURL and
\* revokeObjectURL, part_000:139-164
downloadSteps(format, outcome) ==
    IF outcome = "rejected" THEN <<"alert">>
    ELSE IF outcome = "null" THEN <<>>
    ELSE IF format = "webp" THEN <<"createObjectURL", "click", "revokeObjectURL">>
    ELSE <<"click">>

\* the object URL bookkeeping of a run of steps; early counts the URLs revoked
\* before the link was clicked
RECURSIVE runSteps(_, _, _)
runSteps(steps, urls, clicked) ==
    IF steps = <<>> THEN urls
    ELSE runSteps(Tail(steps),
                  CASE Head(steps) = "createObjectURL" ->
                           [urls EXCEPT !.created = @ + 1]
                    [] Head(steps) = "revokeObjectURL" ->
                           [urls EXCEPT !.revoked = @ + 1,
                                        !.early = IF clicked THEN @ ELSE @ + 1]
                    [] OTHER -> urls,
                  clicked \/ Head(steps) = "click")

hasStep(steps, step) == \E k \in 1..Len(steps) : steps[k] = step

downloadNameLive(s) ==
    [base |-> "screenshot-studio-export", ext |-> settings.outputFormat]

\* link.download = `screenshot-studio-export.${settings.outputFormat}`, with the
\* settings s of the render in which Export was clicked, part_000:155
downloadName(s) ==
    [base |-> "screenshot-studio-export", ext |-> s.outputFormat]

\* the rasterizer call of the i-th export settles and handleDownload runs to its
\* end, part_000:139-167.  A call on a missing node rejects.
ExportDone(i, outcome) ==
    /\ i \in 1..Len(exportOps)
    /\ exportOps[i].pc = "raster"
    /\ ~exportOps[i].call.frame.present => outcome = "rejected"
    /\ exportOps[i].call.fn # "toBlob" => outcome # "null"
    /\ LET op == exportOps[i]
           steps == downloadSteps(op.settings.outputFormat, outcome)
       IN
        /\ downloads' =
              IF hasStep(steps, "click")
              THEN Append(downloads,
                          [base |-> downloadName(op.settings).base,
                           ext |-> downloadName(op.settings).ext,
                           encoded |-> op.call.type])
              ELSE downloads
        /\ objectURLs' = runSteps(steps, objectURLs, FALSE)
        /\ alerts' = IF hasStep(steps, "alert") THEN alerts + 1 ELSE alerts
        /\ exportLabel' = restoreLabel(op.originalText, exportLabel)
    /\ exportOps' = RemoveAt(exportOps, i)
    /\ RecordArg("exportDone", NoUpdate, [NoArg EXCEPT !.outcome = outcome])
    /\ UNCHANGED <<settingsVars, canvasVars, layout, events, toggleBase, lastWallpaper>>
    /\ UNCHANGED <<copied, isCopying, copyOps, copiedTimers, clipboard, lastRaster>>

\* A click on the copy button (disabled while !imageData || copied || isCopying):
\* the handler up to the first await of handleCopy, Sidebar.tsx:454-460,
\* part_000:95-99
CopyClick ==
    /\ image # Null /\ ~copied /\ ~isCopying
    /\ UserEvent
    /\ isCopying' = TRUE
    /\ copyOps' = Append(copyOps, [settings |-> settings, pc |-> "delay", call |-> NoCall])
    /\ Record("copyClick", NoUpdate)
    /\ UNCHANGED <<settingsVars, canvasVars, toggleBase, lastWallpaper>>
    /\ UNCHANGED <<exportLabel, exportOps, copied, copiedTimers, downloads, objectURLs,
                   clipboard, alerts, lastRaster>>

\* the 100 ms timer of handleCopy fires and toBlob is called, part_000:99-111
CopyRasterize(i) ==
    /\ i \in 1..Len(copyOps)
    /\ copyOps[i].pc = "delay"
    /\ LET call == copyCall(copyOps[i].settings, exportFrame(settings, image)) IN
        /\ copyOps' = [copyOps EXCEPT ![i].pc = "raster", ![i].call = call]
        /\ lastRaster' = [by |-> "copy", settings |-> copyOps[i].settings,
                          call |-> call, aspectRatio |-> settings.aspectRatio]
    /\ Record("copyRasterize", NoUpdate)
    /\ UNCHANGED <<settingsVars, canvasVars, events, toggleBase, lastWallpaper>>
    /\ UNCHANGED <<exportLabel, exportOps, copied, isCopying, copiedTimers, downloads,
                   objectURLs, clipboard, alerts>>

\* an end of the copy handler that starts no timer
CopyFinishNoTimer(i, ok) ==
    /\ IF ok
       THEN /\ copied' = TRUE
            /\ UNCHANGED <<copiedTimers, alerts>>
       ELSE /\ alerts' = alerts + 1
            /\ UNCHANGED <<copied, copiedTimers>>
    /\ isCopying' = FALSE
    /\ copyOps' = RemoveAt(copyOps, i)

CopyFinishNoFinally(i, ok) ==
    /\ IF ok
       THEN /\ copied' = TRUE
            /\ copiedTimers' = copiedTimers + 1
            /\ isCopying' = FALSE
            /\ UNCHANGED alerts
       ELSE /\ alerts' = alerts + 1
            /\ UNCHANGED <<copied, copiedTimers, isCopying>>
    /\ copyOps' = RemoveAt(copyOps, i)

\* the end of the copy handler: setCopied(true) and the 2 s timer, or the alert of
\* the catch block; finally setIsCopying(false), Sidebar.tsx:460-469
CopyFinish(i, ok) ==
    /\ IF ok
       THEN /\ copied' = TRUE
            /\ copiedTimers' = copiedTimers + 1
            /\ UNCHANGED alerts
       ELSE /\ alerts' = alerts + 1
            /\ UNCHANGED <<copied, copiedTimers>>
    /\ isCopying' = FALSE
    /\ copyOps' = RemoveAt(copyOps, i)

\* toBlob settles, part_000:105-117: a blob is handed to navigator.clipboard.write,
\* without one handleCopy returns, a rejection propagates to the click handler
CopyRasterDone(i, outcome) ==
    /\ i \in 1..Len(copyOps)
    /\ copyOps[i].pc = "raster"
    /\ ~copyOps[i].call.frame.present => outcome = "rejected"
    /\ IF outcome = "ok"
       THEN /\ copyOps' = [copyOps EXCEPT ![i].pc = "write"]
            /\ UNCHANGED <<copied, isCopying, copiedTimers, alerts>>
       ELSE CopyFinish(i, outcome = "null")
    /\ RecordArg("copyRasterDone", NoUpdate, [NoArg EXCEPT !.outcome = outcome])
    /\ UNCHANGED <<settingsVars, canvasVars, layout, events, toggleBase, lastWallpaper>>
    /\ UNCHANGED <<exportLabel, exportOps, downloads, objectURLs, clipboard, lastRaster>>

\* navigator.clipboard.write settles, part_000:113-117
CopyWriteDone(i, ok) ==
    /\ i \in 1..Len(copyOps)
    /\ copyOps[i].pc = "write"
    /\ clipboard' = IF ok THEN Append(clipboard, copyOps[i].call.type) ELSE clipboard
    /\ CopyFinish(i, ok)
    /\ Record("copyWriteDone", NoUpdate)
    /\ UNCHANGED <<settingsVars, canvasVars, events, toggleBase, lastWallpaper>>
    /\ UNCHANGED <<exportLabel, exportOps, downloads, objectURLs, lastRaster>>

\* setTimeout(() => setCopied(false), 2000) fires, Sidebar.tsx:463
CopiedTimeout ==
    /\ copiedTimers > 0
    /\ copiedTimers' = copiedTimers - 1
    /\ copied' = FALSE
    /\ Record("copiedTimeout", NoUpdate)
    /\ UNCHANGED <<settingsVars, canvasVars, events, toggleBase, lastWallpaper>>
    /\ UNCHANGED <<exportLabel, exportOps, isCopying, copyOps, downloads, objectURLs,
                   clipboard, alerts, lastRaster>>

-----------------------------------------------------------------------------
(* Specification of the settings and background controls *)

\* the state after construction and the mount effect, for settings s and the
\* Canvas constraints l
InitWith(s, l) ==
    /\ settings = s
    /\ image = Null
    /\ isAnalyzing = FALSE
    /\ apiKey \in {"", "key"}
    /\ paletteReqs = <<>>
    /\ paletteCall = [response |-> NotCalled,
                      settled |-> [state |-> "pending", value |-> JsonNull]]
    /\ bgReads = <<>>
    /\ imgReads = <<>>
    /\ exportLabel = idleLabel
    /\ exportOps = <<>>
    /\ copied = FALSE
    /\ isCopying = FALSE
    /\ copyOps = <<>>
    /\ copiedTimers = 0
    /\ downloads = <<>>
    /\ objectURLs = [created |-> 0, revoked |-> 0, early |-> 0]
    /\ clipboard = <<>>
    /\ alerts = 0
    /\ lastRaster = [by |-> "none", settings |-> settings, call |-> NoCall,
                     aspectRatio |-> settings.aspectRatio]
    /\ container = <<1600, 900>>
    /\ previewScale = calculateScale(container, settings.aspectRatio)
    /\ events = 0
    /\ last = [op |-> "init", pre |-> settings, partial |-> NoUpdate]
    /\ toggleBase = settings.background
    /\ lastWallpaper = settings.background.image
    /\ layout = l
    /\ snap = [image |-> Null, reads |-> <<>>, alerts |-> 0, downloads |-> 0,
               clipboard |-> 0, arg |-> NoArg, requested |-> Null]

Init ==
    InitWith(loadDefaultWallpaper(defaultSettings),
             canvasLayout(loadDefaultWallpaper(defaultSettings)))

Next ==
    \/ \E type \in BackgroundTypes : SetBgType(type)
    \/ \E i \in 1..WallpaperChoices : SelectWallpaper(wallpapers[i])
    \/ \E c \in solidColors : SetSolid(c)
    \/ \E c \in pickerColors : SetGradientStart(c)
    \/ \E c \in pickerColors : SetGradientEnd(c)
    \/ \E i \in 1..Len(directions) : SetGradientDirection(i)
    \/ \E b \in BlurValues : SetBlur(b)
    \/ \E f \in Files : BgUploadStart(f)
    \/ \E i \in 1..Len(bgReads) : BgReadDone(i)
    \/ \E f \in ExportFormats : SetOutputFormat(f)
    \/ PaletteClick
    \/ \E i \in 1..Len(paletteReqs), r \in Responses : PaletteDone(i, r)
    \/ \E f \in Files : UploadFile(f)
    \/ \E i \in 1..Len(imgReads) : ImgReadDone(i)

Spec == Init /\ [][Next]_vars

-----------------------------------------------------------------------------
(* Specification of the export and copy pipeline: the controls that decide an *)
(* export (image, format, background type and colour, aspect ratio, window    *)
(* size) and the export and copy operations                                   *)

NextExport ==
    \/ \E f \in Files : UploadFile(f)
    \/ \E i \in 1..Len(imgReads) : ImgReadDone(i)
    \/ ResetImage
    \/ \E f \in ExportFormats : SetOutputFormat(f)
    \/ \E type \in {"solid", "gradient"} : SetBgType(type)
    \/ \E c \in solidColors : SetSolid(c)
    \/ \E r \in AspectRatios : SetAspectRatio(r)
    \/ \E size \in ContainerSizes : Resize(size)
    \/ ExportClick
    \/ \E i \in 1..Len(exportOps) : ExportRasterize(i)
    \/ \E i \in 1..Len(exportOps), o \in RasterOutcomes : ExportDone(i, o)
    \/ CopyClick
    \/ \E i \in 1..Len(copyOps) : CopyRasterize(i)
    \/ \E i \in 1..Len(copyOps), o \in RasterOutcomes : CopyRasterDone(i, o)
    \/ \E i \in 1..Len(copyOps), ok \in BOOLEAN : CopyWriteDone(i, ok)
    \/ CopiedTimeout

SpecExport == Init /\ [][NextExport]_vars

-----------------------------------------------------------------------------
(* Specification of image ingestion: the file picker, the Reset Image button, *)
(* drag-and-drop, paste, and the reads they start                             *)

NextIngest ==
    \/ \E f \in IngestFiles : UploadFile(f)
    \/ UploadEmpty
    \/ \E f \in IngestFiles : DropFile(f)
    \/ \E items \in Clipboards : Paste(items)
    \/ \E i \in 1..Len(imgReads) : ImgReadDone(i)
    \/ ResetImage
    \/ SetDarkModeWindow

SpecIngest == Init /\ [][NextIngest]_vars

-----------------------------------------------------------------------------
(* Specification of the AI Match button: the image can be loaded, replaced and *)
(* reset while a palette request is in flight                                  *)

NextPalette ==
    \/ \E f \in Files : UploadFile(f)
    \/ \E i \in 1..Len(imgReads) : ImgReadDone(i)
    \/ ResetImage
    \/ PaletteClick
    \/ \E i \in 1..Len(paletteReqs), r \in Responses : PaletteDone(i, r)

SpecPalette == Init /\ [][NextPalette]_vars

-----------------------------------------------------------------------------
(* Specification of the image constraints over what the controls can set: the *)
(* Canvas is rendered once for the settings with any value of the padding      *)
(* slider and any of the four aspect ratio buttons                             *)

InitPadding ==
    \E padding \in PaddingRange, r \in AspectRatios :
        InitWith([loadDefaultWallpaper(defaultSettings) EXCEPT
                      !.padding = padding, !.aspectRatio = r],
                 NotRendered)

NextPadding == RenderCanvas

SpecPadding == InitPadding /\ [][NextPadding]_vars

-----------------------------------------------------------------------------
(* Specification of the Canvas constraints as a function of padding and aspect *)
(* ratio: the Canvas is rendered once for settings with any padding up to     *)
(* MaxPadding and any of the four aspect ratios                               *)

InitLayout ==
    \E padding \in 0..MaxPadding, r \in AspectRatios :
        InitWith([loadDefaultWallpaper(defaultSettings) EXCEPT
                      !.padding = padding, !.aspectRatio = r],
                 NotRendered)

NextLayout == RenderCanvas

SpecLayout == InitLayout /\ [][NextLayout]_vars

-----------------------------------------------------------------------------
(* Specification of the background style as a function of the background      *)
(* config: the Canvas is rendered once for settings with any of the configs   *)
(* of BackgroundInputs, among them a type outside BackgroundType              *)

BackgroundInputs ==
    [type     : BackgroundTypes \cup {"pattern"},
     solid    : {"#1a1a1a", "#ef4444"},
     gradient : [start : {"#09203f", "#111111"}, end : {"#537895"},
                 direction : {directions[i].value : i \in 1..Len(directions)}],
     image    : {hiResWallpaper(wallpapers[1]), pngFile.dataURL},
     blur     : BlurValues]

InitStyle ==
    \E bg \in BackgroundInputs, padding \in PaddingValues :
        InitWith([defaultSettings EXCEPT !.background = bg, !.padding = padding],
                 NotRendered)

NextStyle == RenderCanvas

SpecStyle == InitStyle /\ [][NextStyle]_vars

-----------------------------------------------------------------------------
(* Specification of all controls that write the settings: those of Spec with  *)
(* fewer values each, and the aspect ratio, frame, shadow and window controls *)

\* the answers of the palette service it is run with: a failure, two colours
ControlResponses ==
    {[kind |-> "rejected", value |-> JsonNull],
     [kind |-> "json", value |-> [colors |-> <<"#111111", "#333333">>]]}

NextControls ==
    \/ \E type \in BackgroundTypes : SetBgType(type)
    \/ SelectWallpaper(wallpapers[WallpaperChoices])
    \/ \E c \in pickerColors : SetSolid(c)
    \/ \E c \in pickerColors : SetGradientStart(c)
    \/ \E c \in pickerColors : SetGradientEnd(c)
    \/ \E i \in {1, Len(directions)} : SetGradientDirection(i)
    \/ \E b \in BlurValues \ {0} : SetBlur(b)
    \/ BgUploadStart(pngFile)
    \/ \E i \in 1..Len(bgReads) : BgReadDone(i)
    \/ \E f \in ExportFormats : SetOutputFormat(f)
    \/ PaletteClick
    \/ \E i \in 1..Len(paletteReqs), r \in ControlResponses : PaletteDone(i, r)
    \/ UploadFile(pngFile)
    \/ \E i \in 1..Len(imgReads) : ImgReadDone(i)
    \/ \E r \in AspectRatios : SetAspectRatio(r)
    \/ \E padding \in PaddingValues : SetPadding(padding)
    \/ \E radius \in RadiusValues : SetBorderRadius(radius)
    \/ \E scale \in ScaleValues : SetScale(scale)
    \/ \E size \in ShadowSizes : SetShadowSize(size)
    \/ SetDarkModeWindow

SpecControls == Init /\ [][NextControls]_vars

-----------------------------------------------------------------------------
(* Specification of the preview: window sizes, aspect ratio, the image and    *)
(* exports of the frame                                                       *)

NextPreview ==
    \/ \E size \in PreviewSizes : Resize(size)
    \/ \E r \in AspectRatios : SetAspectRatio(r)
    \/ DropFile(pngFile)
    \/ \E i \in 1..Len(imgReads) : ImgReadDone(i)
    \/ ResetImage
    \/ ExportClick
    \/ \E i \in 1..Len(exportOps) : ExportRasterize(i)
    \/ \E i \in 1..Len(exportOps), o \in RasterOutcomes : ExportDone(i, o)

SpecPreview == Init /\ [][NextPreview]_vars

-----------------------------------------------------------------------------
(* Claims about the settings and background controls, checked under Spec *)

OtherKeysKept == \A k \in DOMAIN last.pre \ {"background"} : settings[k] = last.pre[k]

\* C1: no settings update is lost to a read-modify-write race.  When an operation
\* that was in flight (the palette call, the background-image read) applies its
\* update, every field it does not itself set holds the value it had just before,
\* which is the value of the user's most recent change.
C1_NoLostUpdate ==
    /\ (last.op = "palette" /\ DOMAIN last.partial # {}) =>
          /\ OtherKeysKept
          /\ settings.background.solid = last.pre.background.solid
          /\ settings.background.image = last.pre.background.image
          /\ settings.background.blur = last.pre.background.blur
    /\ last.op = "bgUpload" =>
          /\ OtherKeysKept
          /\ settings.background.solid = last.pre.background.solid
          /\ settings.background.gradient = last.pre.background.gradient
          /\ settings.background.blur = last.pre.background.blur

\* C4: setBgType changes the discriminant only.  After any run of type switches
\* that is back on the type it started from, the background record equals the one
\* the run started from.
C4_TypeSwitchRoundTrip ==
    settings.background.type = toggleBase.type => settings.background = toggleBase

\* solid -> gradient -> solid has kept a solid colour that is not the initial one
C4_Witness ==
    /\ last.op = "setBgType"
    /\ last.pre.background.type = "gradient"
    /\ settings.background.type = "solid"
    /\ toggleBase.type = "solid"
    /\ settings.background.solid = "#ef4444"

\* C5: exactly one background type is active, every operation that edits the
\* active variant leaves the fields of the inactive variants as they were, and
\* the wallpaper variant comes back with the wallpaper selected last, also after
\* a custom background image was uploaded.
C5_InactiveVariantsKept ==
    /\ settings.background.type \in BackgroundTypes
    /\ last.op = "solid" =>
          /\ settings.background.gradient = last.pre.background.gradient
          /\ settings.background.image = last.pre.background.image
          /\ settings.background.blur = last.pre.background.blur
    /\ last.op \in {"gradientStart", "gradientEnd", "gradientDirection"} =>
          /\ settings.background.solid = last.pre.background.solid
          /\ settings.background.image = last.pre.background.image
          /\ settings.background.blur = last.pre.background.blur
    /\ last.op \in {"selectWallpaper", "bgUpload"} =>
          /\ settings.background.solid = last.pre.background.solid
          /\ settings.background.gradient = last.pre.background.gradient
          /\ settings.background.blur = last.pre.background.blur
    /\ last.op = "blur" =>
          /\ settings.background.solid = last.pre.background.solid
          /\ settings.background.gradient = last.pre.background.gradient
          /\ settings.background.image = last.pre.background.image
    /\ settings.background.type = "wallpaper" =>
          settings.background.image = lastWallpaper

\* C6: updateSettings(partial) is a shallow top-level merge.  Every key of partial
\* has partial's value in the result (a nested object as a whole), every other key
\* keeps its previous value.
C6_ShallowMerge ==
    DOMAIN last.partial # {} =>
        /\ DOMAIN settings = DOMAIN last.pre \cup DOMAIN last.partial
        /\ \A k \in DOMAIN last.partial : settings[k] = last.partial[k]
        /\ \A k \in DOMAIN last.pre \ DOMAIN last.partial : settings[k] = last.pre[k]

\* an update whose background differs from the previous one in a field the caller
\* did not mean to change: the result carries the partial's nested object
C6_Witness ==
    /\ last.op = "palette"
    /\ DOMAIN last.partial = {"background"}
    /\ last.partial.background.blur # last.pre.background.blur
    /\ settings.background.blur = last.partial.background.blur
    /\ settings.outputFormat = last.pre.outputFormat
    /\ settings.outputFormat # defaultSettings.outputFormat

HasTwoColors(v) == "colors" \in DOMAIN v /\ Len(v.colors) >= 2

\* C9: when the palette service returns at least two colours, the background
\* becomes a gradient from the first to the last of them with direction
\* 'to bottom right'; with fewer than two the settings are left unchanged.
C9_PaletteGradient ==
    last.op = "palette" =>
        LET v == paletteCall.settled.value IN
        IF HasTwoColors(v)
        THEN /\ settings.background.type = "gradient"
             /\ settings.background.gradient =
                    [start |-> v.colors[1], end |-> v.colors[Len(v.colors)],
                     direction |-> "to bottom right"]
        ELSE settings = last.pre

\* the service answered [#111111, #222222, #333333]
C9_Witness ==
    /\ last.op = "palette"
    /\ paletteCall.response.kind = "json"
    /\ paletteCall.settled.value = [colors |-> <<"#111111", "#222222", "#333333">>]
    /\ settings.background.gradient.start = "#111111"
    /\ settings.background.gradient.end = "#333333"

FailureKinds == {"rejected", "undefined", "empty", "malformed"}

\* C10: generateSmartPalette never rejects.  Without a credential, after a failed
\* network call, an empty response or an unparsable response it resolves with a
\* fallback palette.
C10_NeverRejects ==
    /\ paletteCall.settled.state # "rejected"
    /\ paletteCall.settled.state = "fulfilled" =>
          ((apiKey = "" \/ paletteCall.response.kind \in FailureKinds) =>
              paletteCall.settled.value \in {fallbackNoKey, fallbackError})

\* a call with a credential whose response did not parse
C10_Witness ==
    /\ apiKey # ""
    /\ paletteCall.response.kind = "malformed"
    /\ paletteCall.settled = Fulfilled(fallbackError)

\* C11: a missing credential is treated identically to a service failure: a
\* call that fails with a credential resolves with exactly the palette a call
\* without a credential resolves with, one and the same fixed fallback.
C11_SameFallback ==
    (/\ paletteCall.settled.state = "fulfilled"
     /\ (apiKey = "" \/ paletteCall.response.kind \in FailureKinds)) =>
        paletteCall.settled = generateSmartPalette("", NotCalled)

\* type GradientDirection, types.ts:3-11
GradientDirection ==
    {"to right", "to left", "to bottom", "to top", "to bottom right",
     "to bottom left", "to top right", "to top left"}

\* C24: the direction control offers the four corners and the four edges and
\* never the centre entry: the direction is always one of the eight values of
\* GradientDirection, a click sets the value of its button, the buttons carry
\* exactly the eight values, and the centre entry can never be clicked.
C24_EightDirections ==
    /\ settings.background.gradient.direction \in GradientDirection
    /\ last.op = "gradientDirection" =>
          settings.background.gradient.direction =
              last.partial.background.gradient.direction
    /\ \A i \in 1..Len(directions) :
          directions[i].label = "C" => ~ENABLED SetGradientDirection(i)
    /\ {directions[i].value : i \in {j \in 1..Len(directions) : directions[j].label # "C"}}
          = GradientDirection

\* the bottom right button was clicked
C24_Witness ==
    /\ last.op = "gradientDirection"
    /\ last.pre.background.gradient.direction = "to top"
    /\ settings.background.gradient.direction = "to top left"

-----------------------------------------------------------------------------
(* Claims about the export and copy pipeline, checked under SpecExport *)

\* C2: once every export and copy operation has finished, with or without a
\* rasterization failure, the export button shows the label it had before any
\* export started and isCopying is false, also after requests that were issued
\* while an earlier one was in flight.
C2_ControlsIdleAfterOps ==
    /\ exportOps = <<>> => exportLabel = idleLabel
    /\ copyOps = <<>> => ~isCopying

\* C3: while an export or a copy is in flight its own control is disabled, so at
\* most one export operation and at most one copy operation is in flight.
C3_AtMostOneInFlight ==
    /\ Len(exportOps) <= 1
    /\ Len(copyOps) <= 1

\* round(1200 * h / w) for the four aspect ratios w/h
ExpectedHeight(aspectRatio) ==
    CASE aspectRatio = "16/9" -> 675
      [] aspectRatio = "4/3"  -> 900
      [] aspectRatio = "1/1"  -> 1200
      [] aspectRatio = "9/16" -> 2133

\* C7: for every aspect ratio w/h the frame handed to the rasterizer is 1200 wide
\* and round(1200 * h / w) high and is rasterized at pixel ratio 2, whatever the
\* size of the preview container and the preview fit scale are.
C7_ExportDimensions ==
    (lastRaster.by # "none" /\ lastRaster.call.frame.present) =>
        /\ lastRaster.call.frame.width = 1200
        /\ FracRound(lastRaster.call.frame.height) = ExpectedHeight(lastRaster.aspectRatio)
        /\ lastRaster.call.pixelRatio = 2

\* an export of the 9/16 frame while the preview is scaled down
C7_Witness ==
    /\ lastRaster.by = "export"
    /\ lastRaster.aspectRatio = "9/16"
    /\ lastRaster.call.frame.present
    /\ lastRaster.call.frame.height = Frac(6400, 3)
    /\ previewScale # One

\* C8: for a JPEG export the backing fill colour passed to the rasterizer is
\* settings.background.solid when background.type is 'solid' and '#000' for every
\* other type, settings being those handleDownload was called with.
C8_JpegBackingFill ==
    (lastRaster.by = "export" /\ lastRaster.call.fn = "toJpeg") =>
        lastRaster.call.backgroundColor =
            IF lastRaster.settings.background.type = "solid"
            THEN lastRaster.settings.background.solid
            ELSE "#000"

\* a JPEG export of a solid background whose colour is not the initial one
C8_Witness ==
    /\ lastRaster.by = "export"
    /\ lastRaster.call.fn = "toJpeg"
    /\ lastRaster.settings.background.type = "solid"
    /\ lastRaster.settings.background.solid = "#ef4444"
    /\ lastRaster.call.backgroundColor = "#ef4444"
-----------------------------------------------------------------------------
(* Claims about image ingestion, checked under SpecIngest *)

IngestOps == {"upload", "drop", "paste"}

\* no item of the source has a type that begins with 'image/'
NonImageSource(items) ==
    \A i \in 1..Len(items) : ~startsWith(items[i].type, imagePrefix)

\* C12: ingesting a source whose MIME type does not begin with 'image/' is a
\* silent no-op on every entry point (file picker, paste, drag-and-drop): the
\* image and the settings are unchanged, no read is started and no alert shown.
C12_NonImageIgnored ==
    (last.op \in IngestOps /\ NonImageSource(snap.arg.items)) =>
        /\ image = snap.image
        /\ imgReads = snap.reads
        /\ settings = last.pre
        /\ alerts = snap.alerts

\* an image is loaded and a file of type x-image/raw is pasted
C12_Witness ==
    /\ last.op = "paste"
    /\ snap.arg.items = <<fileItem(rawFile)>>
    /\ snap.image # Null
    /\ image = snap.image
    /\ imgReads = <<>>

\* C25: the image ends up reflecting the most recent request: once no read is
\* in flight it is the data URI of the last accepted file the user supplied, or
\* null if the last request was Reset Image.
C25_LastRequestWins ==
    imgReads = <<>> => image = snap.requested

\* C13: a picker change event with an empty selection (which is what the Reset
\* Image button sends) sets the image to null whatever it was before, starts no
\* read and changes no settings field; a rejected upload leaves the image as it
\* was.
C13_EmptySelectionClears ==
    /\ last.op \in {"reset", "uploadEmpty"} =>
          /\ image = Null
          /\ imgReads = snap.reads
          /\ settings = last.pre
    /\ (last.op = "upload" /\ NonImageSource(snap.arg.items)) =>
          image = snap.image

\* Reset Image pressed while a pasted image is shown
C13_Witness ==
    /\ last.op = "reset"
    /\ snap.image = pngFile.dataURL
    /\ image = Null

\* a source that holds one file: the file alone, or the file next to string
\* items whose type does not contain 'image'
HoldsOneFile(items) ==
    \E i \in 1..Len(items) :
        /\ items[i].kind = "file"
        /\ \A j \in 1..Len(items) :
              j # i => (items[j].kind = "string" /\ ~contains(items[j].type, imageWord))

TheFile(items) ==
    items[CHOOSE i \in 1..Len(items) : items[i].kind = "file"].file

C14_WitnessLoaded ==
    /\ last.op = "imageLoaded"
    /\ image = jpegFile.dataURL

-----------------------------------------------------------------------------
(* Claims about the side effects of export and copy, checked under SpecExport *)

\* the downloads of WebP exports so far
WebpDownloads == {k \in 1..Len(downloads) : downloads[k].ext = "webp"}

\* C15: every object URL created for a WebP export is released after the
\* download has been triggered: one URL is created per WebP download, none is
\* revoked before its link was clicked, and once no export is in flight no
\* created URL is left unrevoked.
C15_ObjectURLsReleased ==
    /\ objectURLs.created = Cardinality(WebpDownloads)
    /\ objectURLs.early = 0
    /\ objectURLs.revoked <= objectURLs.created
    /\ exportOps = <<>> => objectURLs.created - objectURLs.revoked = 0

\* a WebP export has run to its end
C15_Witness ==
    /\ exportOps = <<>>
    /\ last.op = "exportDone"
    /\ WebpDownloads # {}
    /\ objectURLs.created >= 1
    /\ objectURLs.revoked = objectURLs.created

\* C16: the clipboard path always rasterizes to a PNG blob, whatever the
\* selected output format: every copy calls toBlob for image/png, and nothing but
\* image/png is ever written to the clipboard.
C16_ClipboardPng ==
    /\ \A k \in 1..Len(clipboard) : clipboard[k] = "image/png"
    /\ \A k \in 1..Len(copyOps) :
          copyOps[k].pc # "delay" =>
              (copyOps[k].call.fn = "toBlob" /\ copyOps[k].call.type = "image/png")
    /\ lastRaster.by = "copy" =>
          (lastRaster.call.fn = "toBlob" /\ lastRaster.call.type = "image/png")

\* a copy made while WebP is the selected format has been written
C16_Witness ==
    /\ last.op = "copyWriteDone"
    /\ lastRaster.by = "copy"
    /\ lastRaster.settings.outputFormat = "webp"
    /\ clipboard = <<"image/png">>

\* the MIME type of an output format
mimeOf(ext) ==
    CASE ext = "png" -> "image/png"
      [] ext = "jpeg" -> "image/jpeg"
      [] ext = "webp" -> "image/webp"

\* C17: every triggered download is named screenshot-studio-export.<ext> with
\* <ext> an output format, and <ext> is the format the rasterizer was asked to
\* encode that export in, also when the selector was changed while the export
\* was in flight.
C17_NameMatchesEncoding ==
    \A k \in 1..Len(downloads) :
        /\ downloads[k].base = "screenshot-studio-export"
        /\ downloads[k].ext \in ExportFormats
        /\ downloads[k].encoded = mimeOf(downloads[k].ext)

\* a JPEG export finished after the selector was moved to PNG
C17_Witness ==
    /\ last.op = "exportDone"
    /\ Len(downloads) = 1
    /\ downloads[1].ext = "jpeg"
    /\ downloads[1].encoded = "image/jpeg"
    /\ settings.outputFormat = "png"

\* C18: a rasterization failure during export or copy is non-fatal: it shows one
\* alert, triggers no download and no clipboard write, leaves settings and image
\* as they were, and afterwards a click on Export (and, after a failed copy, on
\* Copy) is accepted whenever an image is loaded.
C18_RasterFailureNonFatal ==
    (last.op \in {"exportDone", "copyRasterDone"} /\ snap.arg.outcome = "rejected") =>
        /\ alerts = snap.alerts + 1
        /\ Len(downloads) = snap.downloads
        /\ Len(clipboard) = snap.clipboard
        /\ settings = last.pre
        /\ image = snap.image
        /\ (image # Null /\ events < MaxEvents) => ENABLED ExportClick
        /\ (last.op = "copyRasterDone" /\ image # Null /\ events < MaxEvents) =>
              ENABLED CopyClick

\* the rasterizer rejected a copy while the image was loaded
C18_Witness ==
    /\ last.op = "copyRasterDone"
    /\ snap.arg.outcome = "rejected"
    /\ image # Null
    /\ alerts = 1
    /\ events < MaxEvents

\* the rasterizer rejected an export
C18_WitnessExport ==
    /\ last.op = "exportDone"
    /\ snap.arg.outcome = "rejected"
    /\ image # Null
    /\ exportLabel = idleLabel

-----------------------------------------------------------------------------
(* Claims about the Canvas constraints, checked under SpecLayout *)

\* C19: the computed maximum image height is max(0, canvasHeight - 2*padding - 32)
\* with canvasHeight = 1200 * h / w: it is never negative, it is exactly 0 for
\* every padding and aspect ratio with 2*padding + 32 > canvasHeight, and it is
\* canvasHeight - 2*padding - 32 otherwise.
C19_MaxImgHeightClamped ==
    layout.rendered =>
        LET w == splitAspect(settings.aspectRatio)[1]
            h == splitAspect(settings.aspectRatio)[2]
            used == 2 * settings.padding + 32
        IN  /\ layout.maxImgHeight.num >= 0
            /\ layout.maxImgHeight.den > 0
            /\ used * w > 1200 * h => layout.maxImgHeight.num = 0
            /\ used * w <= 1200 * h =>
                  layout.maxImgHeight.num * w = (1200 * h - used * w) * layout.maxImgHeight.den

\* padding 400 at 16/9: 2 * 400 + 32 exceeds the canvas height 675
C19_Witness ==
    /\ layout.rendered
    /\ settings.padding = 400
    /\ settings.aspectRatio = "16/9"
    /\ layout.maxImgHeight = Zero

-----------------------------------------------------------------------------
(* Claims about all settings controls, checked under SpecControls *)

\* C20: in every state reachable through the controls the settings record is
\* complete and valid: every field is present, outputFormat, aspectRatio and
\* background.type are among their values, padding is in 0..128, borderRadius in
\* 0..48, scale in 0.5..1.5, blur in 0..40, and background, background.gradient
\* and shadow carry all their fields.
C20_SettingsValid ==
    /\ DOMAIN settings = {"padding", "borderRadius", "rotate", "scale", "aspectRatio",
                          "background", "shadow", "darkModeWindow", "outputFormat"}
    /\ DOMAIN settings.background = {"type", "solid", "gradient", "image", "blur"}
    /\ DOMAIN settings.background.gradient = {"start", "end", "direction"}
    /\ DOMAIN settings.shadow = {"size", "color", "opacity"}
    /\ settings.outputFormat \in {"png", "jpeg", "webp"}
    /\ settings.aspectRatio \in {"16/9", "4/3", "1/1", "9/16"}
    /\ settings.background.type \in {"wallpaper", "gradient", "solid", "image"}
    /\ settings.padding \in 0..128
    /\ settings.borderRadius \in 0..48
    /\ settings.scale \in 50..150
    /\ settings.background.blur \in 0..40

\* a shadow button was clicked after the padding slider was moved to its end
C20_Witness ==
    /\ last.op = "shadow"
    /\ settings.shadow = [size |-> "2xl", color |-> "#000000", opacity |-> 50]
    /\ settings.padding = 128

-----------------------------------------------------------------------------
(* Claims about the preview, checked under SpecPreview *)

\* min(1, (W - 60) / 1200, (H - 60) / (1200 * h / w)) for a container W x H
FitScale(size, aspectRatio) ==
    LET w == splitAspect(aspectRatio)[1]
        h == splitAspect(aspectRatio)[2]
        sx == Frac(size[1] - 60, 1200)
        sy == Frac((size[2] - 60) * w, 1200 * h)
    IN  IF FracLE(One, sx) /\ FracLE(One, sy) THEN One
        ELSE IF FracLE(sx, sy) THEN sx ELSE sy

\* C21: after every resize and every aspect ratio change (and in every other
\* state) the preview fit scale is min(1, (W-60)/1200, (H-60)/baseHeight) for the
\* current container and the current aspect ratio, and whatever the fit scale is
\* the frame handed to the rasterizer is 1200 wide and 1200 * h / w high.
C21_FitScaleCurrent ==
    /\ previewScale = FitScale(container, settings.aspectRatio)
    /\ image # Null =>
          exportFrame(settings, image) =
              [present |-> TRUE, width |-> 1200,
               height |-> Frac(1200 * splitAspect(settings.aspectRatio)[2],
                               splitAspect(settings.aspectRatio)[1])]
    /\ lastRaster.call.frame.present =>
          /\ lastRaster.call.frame.width = 1200
          /\ lastRaster.call.frame.height =
                Frac(1200 * splitAspect(lastRaster.aspectRatio)[2],
                     splitAspect(lastRaster.aspectRatio)[1])

\* the window is resized after the aspect ratio was changed to 9/16
C21_Witness ==
    /\ last.op = "resize"
    /\ settings.aspectRatio = "9/16"
    /\ container = <<660, 400>>
    /\ previewScale = Frac(51, 320)

\* C30: the preview fit scale is always in (0, 1]: never above 1, and never zero
\* or negative, whatever the size of the container.
C30_ScaleInUnitInterval ==
    /\ previewScale.num > 0
    /\ previewScale.num <= previewScale.den

-----------------------------------------------------------------------------
(* Claims about the background style, checked under SpecStyle and SpecControls *)

\* C22: getBackgroundStyle is a total mapping of the background config alone:
\* solid gives a flat fill of the solid colour, gradient a linear gradient with
\* the configured direction, start and end, wallpaper and image a cover-fit
\* centered bitmap of background.image, any other type opaque black.
C22_BackgroundStyle ==
    layout.rendered =>
        LET bg == settings.background
            st == layout.backgroundStyle
        IN  /\ bg.type = "solid" =>
                  /\ st.backgroundColor = bg.solid
                  /\ st.backgroundImage.fn = "unset"
            /\ bg.type = "gradient" =>
                  /\ st.backgroundColor = "unset"
                  /\ st.backgroundImage =
                        [fn |-> "linear-gradient",
                         args |-> <<bg.gradient.direction, bg.gradient.start,
                                    bg.gradient.end>>]
            /\ bg.type \in {"wallpaper", "image"} =>
                  /\ st.backgroundColor = "unset"
                  /\ st.backgroundImage = [fn |-> "url", args |-> <<bg.image>>]
                  /\ st.backgroundSize = "cover"
                  /\ st.backgroundPosition = "center"
            /\ bg.type \notin {"solid", "gradient", "wallpaper", "image"} =>
                  /\ st.backgroundColor = "#000"
                  /\ st.backgroundImage.fn = "unset"
            /\ bg.type \notin {"wallpaper", "image"} =>
                  /\ st.backgroundSize = "unset"
                  /\ st.backgroundPosition = "unset"

\* a render with a type outside the four
C22_Witness ==
    /\ layout.rendered
    /\ settings.background.type = "pattern"
    /\ layout.backgroundStyle.backgroundColor = "#000"

\* C23: the blur filter and the 5% upscale are applied together: the style
\* carries the upscale exactly when it carries the blur filter, which is exactly
\* when the type is wallpaper or image and blur > 0; for solid and gradient a
\* blur left over from a bitmap type gives neither.
C23_BlurWithUpscale ==
    LET bg == settings.background
        st == layout.backgroundStyle
    IN  /\ st.filter.fn = "blur" <=> st.transform.fn = "scale"
        /\ st.filter.fn = "blur" <=> (bg.type \in {"wallpaper", "image"} /\ bg.blur > 0)
        /\ st.filter.fn = "blur" => (st.filter.px = bg.blur /\ st.transform.percent = 105)
        /\ st.filter.fn \in {"blur", "unset"}
        /\ st.transform.fn \in {"scale", "unset"}

\* the blur slider was moved on a wallpaper, then the type was switched to solid
C23_Witness ==
    /\ last.op = "setBgType"
    /\ settings.background.type = "solid"
    /\ settings.background.blur = 40
    /\ layout.backgroundStyle.filter.fn = "unset"
    /\ layout.backgroundStyle.transform.fn = "unset"

\* a blurred wallpaper
C23_WitnessBlurred ==
    /\ settings.background.type = "wallpaper"
    /\ layout.backgroundStyle.filter = [fn |-> "blur", px |-> 20]
    /\ layout.backgroundStyle.transform = [fn |-> "scale", percent |-> 105]

-----------------------------------------------------------------------------
(* Claims about the copy button, checked under SpecExport *)

\* C26: the copy button enters the Copied! state only after a clipboard write
\* was performed for that click: when the copy handler ends with copied = true,
\* the clipboard has one more entry than before the handler's last step.
C26_CopiedOnlyAfterWrite ==
    (last.op \in {"copyRasterDone", "copyWriteDone"} /\ copied) =>
        Len(clipboard) = snap.clipboard + 1

\* C27: the Copied! state is temporary: while copied is true exactly one 2 s
\* timer is pending and otherwise none, the timer sets copied to false, a click
\* while copied or isCopying is true starts nothing, and with copied false, no
\* copy in flight and an image loaded a click starts a copy.
C27_CopiedTemporary ==
    /\ copiedTimers = IF copied THEN 1 ELSE 0
    /\ last.op = "copiedTimeout" => ~copied
    /\ (copied \/ isCopying) => ~ENABLED CopyClick
    /\ (~copied /\ ~isCopying /\ image # Null /\ events < MaxEvents) => ENABLED CopyClick

\* the timer fired after a copy that was written
C27_Witness ==
    /\ last.op = "copiedTimeout"
    /\ clipboard = <<"image/png">>
    /\ ~copied
    /\ ~isCopying
    /\ image # Null

-----------------------------------------------------------------------------
(* Claims about the AI Match button, checked under SpecPalette *)

\* C28: isAnalyzing is true exactly while a palette request is in flight, and at
\* most one is; when handleSmartPalette has resumed after the call isAnalyzing is
\* false whatever the outcome (gradient applied, fewer than two colours,
\* exception); without an image, and while isAnalyzing, a click starts nothing.
C28_AnalyzingWhileInFlight ==
    /\ isAnalyzing <=> Len(paletteReqs) = 1
    /\ Len(paletteReqs) <= 1
    /\ last.op = "palette" => ~isAnalyzing
    /\ image = Null => ~ENABLED PaletteClick
    /\ isAnalyzing => ~ENABLED PaletteClick

\* a request was in flight, resolved with the JSON value null, and the handler's
\* read of result.colors threw
C28_Witness ==
    /\ last.op = "palette"
    /\ apiKey # ""
    /\ "jsonNull" \in DOMAIN paletteCall.settled.value
    /\ paletteReqs = <<>>
    /\ ~isAnalyzing

-----------------------------------------------------------------------------
(* Claims about the image constraints for the values the controls can set, *)
(* checked under SpecPadding                                               *)

\* C29: for every padding the slider can set and every aspect ratio the Canvas
\* renders with maxImgWidth = 1200 - 2 * padding >= 944 and maxImgHeight =
\* baseHeight - 2 * padding - 32 >= 387, both strictly positive: the clamp to 0
\* does not engage.
C29_ConstraintsPositive ==
    layout.rendered =>
    /\ layout.maxImgWidth = baseWidth - 2 * settings.padding
    /\ layout.maxImgWidth >= 944
    /\ layout.maxImgHeight = maxImgHeightUnclamped(settings.padding, settings.aspectRatio)
    /\ FracLE(Frac(387, 1), layout.maxImgHeight)
    /\ layout.maxImgHeight # Zero

\* the slider at its maximum on the lowest canvas: both bounds are met exactly
C29_Witness ==
    /\ layout.rendered
    /\ settings.padding = 128
    /\ settings.aspectRatio = "16/9"
    /\ layout.maxImgWidth = 944
    /\ layout.maxImgHeight = Frac(387, 1)

====
